---- MODULE Spec2Model ----
(***************************************************************************)
(* Paddi CLI: the orchestration engine (src/cli/src/orchestrator/mod.rs)   *)
(* and the commands that drive it (src/cli/src/commands/*.rs).             *)
(*                                                                         *)
(* One behaviour is one execution of the tool for one command: optional    *)
(* pre-flight validation, the command's file gate and directory creation,  *)
(* then one or three stage invocations.  A stage invocation spawns a child *)
(* process and races its completion against the timeout deadline.          *)
(*                                                                         *)
(* Spec starts where the command starts, with its configuration loaded.    *)
(* SpecMain starts one step earlier, where main resolves the configuration *)
(* (src/cli/src/main.rs, src/cli/src/config/mod.rs).  SpecApi is the       *)
(* Config API on one file: from_file, and save followed by from_file.      *)
(* SpecConfig is main followed by the config subcommands init and          *)
(* validate, SpecInit the init command's three stages, and SpecAudit the   *)
(* audit command under fairness of its own steps and of the clock.         *)
(***************************************************************************)
EXTENDS Integers, Sequences, FiniteSets, TLC

VARIABLES
    cmd,        \* the subcommand being executed (main.rs match)
    args,       \* the parsed command-line arguments of the subcommand
    config,     \* the Config handed to the command
    pc,         \* position of the command's async fn
    cur,        \* index (1..3) of the stage being invoked
    stage,      \* per stage: Pending / Running / Succeeded / Failed
    launches,   \* per program: number of times Command::spawn was attempted
    order,      \* the stage scripts in the order their spawn was attempted
    argv,       \* per stage: the argument vector handed to the script
    child,      \* the child process of the current invocation
    elapsed,    \* seconds elapsed on the current invocation's timeout
    ret,        \* the Result<AgentResult> the last run_python_agent returned
    progress,   \* the optional ProgressBar of the orchestrator
    errorLog,   \* what error!() wrote for the run (tracing, not returned)
    result,     \* the Result<()> the command returns to main
    cli,        \* the global options of the command line (--config)
    cfs,        \* the configuration files: path -> content
    userDir,    \* whether dirs::config_dir() is Some on this platform
    reads,      \* the configuration files read, in order
    loaded,     \* the Result<Config> the last Config::from_file returned
    dirs,       \* the data and output directories run_full_audit ensures
    probes      \* what the pre-flight checks and the file gate found

vars == <<cmd, args, config, pc, cur, stage, launches, order, argv, child,
          elapsed, ret, progress, errorLog, result, cli, cfs, userDir, reads,
          loaded, dirs, probes>>

\* the state of the configuration resolver
cfgvars == <<cli, cfs, userDir, reads, loaded>>

----------------------------------------------------------------------------
(* Bounds of the model *)

MaxTimeout == 1      \* timeout_seconds ranges over 0..MaxTimeout
MaxExitCode == 1     \* a child exits with a status in 0..MaxExitCode

----------------------------------------------------------------------------
(* Option<T> *)

None == [some |-> FALSE]
Some(x) == [some |-> TRUE, v |-> x]

\* Option::or: self if it is Some, otherwise the argument
Or(a, b) == IF a.some THEN a ELSE b

\* Option::unwrap_or
UnwrapOr(a, d) == IF a.some THEN a.v ELSE d

----------------------------------------------------------------------------
(* Stages and their scripts *)

Stages == <<"Collect", "Explain", "Report">>

StageSet == {Stages[i] : i \in 1..3}

Script(s) ==
    CASE s = "Collect" -> "collector/agent_collector.py"
      [] s = "Explain" -> "explainer/agent_explainer.py"
      [] s = "Report"  -> "reporter/agent_reporter.py"

\* the order in which check_agents_exist probes the scripts
agents == <<Script("Collect"), Script("Explain"), Script("Report")>>

VersionProbe == "--version"

Programs == {Script(s) : s \in StageSet} \cup {VersionProbe}

Commands == {"audit", "collect", "analyze", "report"}

----------------------------------------------------------------------------
(* Formatting *)

\* Display of bool, as format!("{}", b) writes it
BoolDisplay(b) == IF b THEN "true" ELSE "false"

\* A formatted "--name=value" argument, kept as its two parts
Flag(name, value) == [flag |-> name, val |-> value]

\* String::from_utf8_lossy on the bytes of a stream: a byte of a valid
\* (ASCII) sequence is kept, a byte that is not valid UTF-8 becomes U+FFFD
LossyChar(b) == IF b < 128 THEN b ELSE 65533

from_utf8_lossy(bytes) == [i \in 1..Len(bytes) |-> LossyChar(bytes[i])]

----------------------------------------------------------------------------
(* Input sets *)

ConfigProjectIds == {None, Some(""), Some("cfg-proj")}

\* Default for PythonConfig: default_python_command, default_agents_path
PythonDefault == [command |-> "python3", agents_path |-> "python_agents"]

Configs ==
    [python : {PythonDefault},
     gcp : [project_id : ConfigProjectIds, use_mock : BOOLEAN],
     paths : {[data_dir |-> "data", output_dir |-> "output"],
              [data_dir |-> "", output_dir |-> ""]},
     execution : [parallel : BOOLEAN, timeout_seconds : 0..MaxTimeout]]

\* AuditArgs, CollectArgs, AnalyzeArgs
DomainArgs ==
    [use_mock : {None, Some(TRUE), Some(FALSE)},
     project_id : {None, Some(""), Some("cli-proj")},
     input_dir : {None},
     output_dir : {None},
     format : {None},
     skip_validation : BOOLEAN]

\* ReportArgs
ReportArgs ==
    [use_mock : {None},
     project_id : {None},
     input_dir : {None, Some("in")},
     output_dir : {None, Some("out"), Some("")},
     format : {None, Some(<<"markdown", "html">>)},
     skip_validation : BOOLEAN]

\* bytes a stage may write: 'o','k' / 'b','o','o','m' / an invalid byte
StdoutSet == {<<>>, <<111, 107>>}

StderrSet == {<<>>, <<98, 111, 111, 109>>, <<255>>}

NoChild == [state |-> "none", code |-> 0, stdout |-> <<>>, stderr |-> <<>>]

NoRet == [kind |-> "none"]

\* anyhow::Error: the outermost message, its formatted argument, its cause
Err(text, detail, cause) ==
    [kind |-> "Err", text |-> text, detail |-> detail, cause |-> cause]

Ok == [kind |-> "Ok"]

NoResult == [kind |-> "none"]

----------------------------------------------------------------------------
(* Config: defaults, the TOML document of a configuration file, parsing and
   serialization (src/cli/src/config/mod.rs) *)

\* default_timeout
DefaultTimeout == 300

\* impl Default for GcpConfig
GcpDefault == [project_id |-> None, use_mock |-> TRUE]

\* default_data_dir, default_output_dir
PathsDefault == [data_dir |-> "data", output_dir |-> "output"]

\* default_parallel, default_timeout
ExecutionDefault == [parallel |-> FALSE, timeout_seconds |-> DefaultTimeout]

\* impl Default for Config
ConfigDefault ==
    [python |-> PythonDefault, gcp |-> GcpDefault, paths |-> PathsDefault,
     execution |-> ExecutionDefault]

\* a key of a TOML table, or a table of a document: absent or present
Opt(values) == {None} \cup {Some(x) : x \in values}

\* a TOML document of well-typed keys: each of the four tables is absent or
\* present, and inside a present table each key is absent or present
PythonTables == [command : Opt({"python"}), agents_path : Opt({"agents"})]

GcpTables == [project_id : Opt({"test-project"}), use_mock : Opt({FALSE})]

PathsTables == [data_dir : Opt({"d"}), output_dir : Opt({"o"})]

ExecutionTables == [parallel : Opt({TRUE}), timeout_seconds : Opt({1})]

Docs ==
    [python : Opt(PythonTables), gcp : Opt(GcpTables),
     paths : Opt(PathsTables), execution : Opt(ExecutionTables)]

\* what a path holds: nothing, something that cannot be read as text, text
\* that is not a TOML document of the expected types, or a document
Absent == [kind |-> "absent"]

Unreadable == [kind |-> "unreadable"]

Malformed == [kind |-> "malformed"]

Toml(doc) == [kind |-> "toml", doc |-> doc]

OkConfig(c) == [kind |-> "Ok", v |-> c]

\* #[serde(default)] on the fields of PythonConfig
PythonFromTable(tb) ==
    [command |-> UnwrapOr(tb.command, PythonDefault.command),
     agents_path |-> UnwrapOr(tb.agents_path, PythonDefault.agents_path)]

\* GcpConfig derives Deserialize with no serde attribute on its fields:
\* an absent Option field is None, an absent bool field is an error
GcpFieldsPresent(tb) == tb.use_mock.some

GcpFromTable(tb) ==
    [project_id |-> tb.project_id,
     use_mock |-> UnwrapOr(tb.use_mock, GcpDefault.use_mock)]

\* #[serde(default)] on the fields of PathsConfig
PathsFromTable(tb) ==
    [data_dir |-> UnwrapOr(tb.data_dir, PathsDefault.data_dir),
     output_dir |-> UnwrapOr(tb.output_dir, PathsDefault.output_dir)]

\* #[serde(default)] on the fields of ExecutionConfig
ExecutionFromTable(tb) ==
    [parallel |-> UnwrapOr(tb.parallel, ExecutionDefault.parallel),
     timeout_seconds |->
         UnwrapOr(tb.timeout_seconds, ExecutionDefault.timeout_seconds)]

\* toml::from_str::<Config>: #[serde(default)] on each group of Config
from_str(content) ==
    IF content.kind = "malformed"
    THEN Err("TOML parse error", <<>>, "toml")
    ELSE LET d == content.doc IN
         IF d.gcp.some /\ ~GcpFieldsPresent(d.gcp.v)
         THEN Err("missing field use_mock", <<>>, "toml")
         ELSE OkConfig(
                [python |-> IF d.python.some THEN PythonFromTable(d.python.v)
                            ELSE PythonDefault,
                 gcp |-> IF d.gcp.some THEN GcpFromTable(d.gcp.v)
                         ELSE GcpDefault,
                 paths |-> IF d.paths.some THEN PathsFromTable(d.paths.v)
                           ELSE PathsDefault,
                 execution |-> IF d.execution.some
                               THEN ExecutionFromTable(d.execution.v)
                               ELSE ExecutionDefault])

\* Path::exists; the empty path (no user-config directory) does not exist
Exists(path, fs) == path # "" /\ fs[path].kind # "absent"

\* Config::from_file: read_to_string, then toml::from_str, each with context
from_file(path, fs) ==
    IF ~Exists(path, fs) \/ fs[path].kind = "unreadable"
    THEN Err("Failed to read config file: {}", path, "io")
    ELSE LET r == from_str(fs[path]) IN
         IF r.kind = "Err"
         THEN Err("Failed to parse config file: {}", path, r.text)
         ELSE r

\* variant: an Option field that is None is written as the empty string
to_string_pretty_none_as_empty(c) ==
    Toml([python |-> Some([command |-> Some(c.python.command),
                           agents_path |-> Some(c.python.agents_path)]),
          gcp |-> Some([project_id |-> Some(UnwrapOr(c.gcp.project_id, "")),
                        use_mock |-> Some(c.gcp.use_mock)]),
          paths |-> Some([data_dir |-> Some(c.paths.data_dir),
                          output_dir |-> Some(c.paths.output_dir)]),
          execution |-> Some([parallel |-> Some(c.execution.parallel),
                              timeout_seconds |->
                                  Some(c.execution.timeout_seconds)])])

\* toml::to_string_pretty(&Config): every table and every field is
\* written, except an Option field that is None, which has no TOML form
to_string_pretty(c) ==
    Toml([python |-> Some([command |-> Some(c.python.command),
                           agents_path |-> Some(c.python.agents_path)]),
          gcp |-> Some([project_id |-> c.gcp.project_id,
                        use_mock |-> Some(c.gcp.use_mock)]),
          paths |-> Some([data_dir |-> Some(c.paths.data_dir),
                          output_dir |-> Some(c.paths.output_dir)]),
          execution |-> Some([parallel |-> Some(c.execution.parallel),
                              timeout_seconds |->
                                  Some(c.execution.timeout_seconds)])])

\* the candidates of Config::load, in order; without a user-config
\* directory unwrap_or_default leaves the empty path as the third
UserConfigFile == "~/.config/paddi/config.toml"

\* variant: the hidden file is looked for before paddi.toml
Candidates_hidden_first(ud) ==
    <<".paddi.toml", "paddi.toml", IF ud THEN UserConfigFile ELSE "">>

Candidates(ud) ==
    <<"paddi.toml", ".paddi.toml", IF ud THEN UserConfigFile ELSE "">>

\* the index of the first candidate that exists, 0 if none does
FirstExisting(cands, fs) ==
    IF \A i \in 1..Len(cands) : ~Exists(cands[i], fs) THEN 0
    ELSE CHOOSE i \in 1..Len(cands) :
            /\ Exists(cands[i], fs)
            /\ \A j \in 1..(i - 1) : ~Exists(cands[j], fs)

\* variant: a candidate that fails to load is passed over
load_fall_through(fs, ud) ==
    LET cands == Candidates(ud)
        good == {i \in 1..Len(cands) :
                    Exists(cands[i], fs) /\ from_file(cands[i], fs).kind = "Ok"}
    IN  IF good = {} THEN OkConfig(ConfigDefault)
        ELSE from_file(cands[CHOOSE i \in good : \A j \in good : i <= j], fs)

\* Config::load: the first existing candidate is read and returned (its
\* failure included); with no candidate the defaults are returned
load(fs, ud) ==
    LET cands == Candidates(ud)
        i == FirstExisting(cands, fs)
    IN  IF i = 0 THEN OkConfig(ConfigDefault) ELSE from_file(cands[i], fs)

\* the files Config::load hands to from_file
LoadReads(fs, ud) ==
    LET cands == Candidates(ud)
        i == FirstExisting(cands, fs)
    IN  IF i = 0 THEN <<>> ELSE <<cands[i]>>

----------------------------------------------------------------------------
(* Argument derivation: run_collector, run_explainer, run_reporter *)

\* Path::display of a path given as valid text writes the text as given
PathDisplay(p) == p

StringDisplay(s) == s

\* if let Some(x) = opt { args.push(format!("--name={}", x)) }, by the
\* type of x: bool, String, PathBuf
PushBool(name, opt) ==
    IF opt.some THEN <<Flag(name, BoolDisplay(opt.v))>> ELSE <<>>

PushString(name, opt) ==
    IF opt.some THEN <<Flag(name, StringDisplay(opt.v))>> ELSE <<>>

PushPath(name, opt) ==
    IF opt.some THEN <<Flag(name, PathDisplay(opt.v))>> ELSE <<>>

\* use_mock.or(Some(self.config.gcp.use_mock))
UseMockArg(use_mock, cfg) == Or(use_mock, Some(cfg.gcp.use_mock))

\* variant: the configured project id is taken before the caller's
ProjectIdArg_config_first(project_id, cfg) == Or(cfg.gcp.project_id, project_id)

\* project_id.or(self.config.gcp.project_id.clone())
ProjectIdArg(project_id, cfg) == Or(project_id, cfg.gcp.project_id)

\* input_dir.or(Some(self.config.paths.data_dir.clone()))
InputDirArg(input_dir, cfg) == Or(input_dir, Some(cfg.paths.data_dir))

\* output_dir.or(Some(self.config.paths.output_dir.clone()))
OutputDirArg(output_dir, cfg) == Or(output_dir, Some(cfg.paths.output_dir))

collector_args(use_mock, project_id, cfg) ==
    PushBool("--use_mock", UseMockArg(use_mock, cfg))
    \o PushString("--project_id", ProjectIdArg(project_id, cfg))

explainer_args(use_mock, project_id, cfg) ==
    PushBool("--use_mock", UseMockArg(use_mock, cfg))
    \o PushString("--project_id", ProjectIdArg(project_id, cfg))

reporter_args(input_dir, output_dir, cfg) ==
    PushPath("--input_dir", InputDirArg(input_dir, cfg))
    \o PushPath("--output_dir", OutputDirArg(output_dir, cfg))

\* The overrides each caller hands to the stage: run_full_audit passes its
\* use_mock/project_id to Collect and Explain and (None, None) to Report;
\* the report command passes its --input-dir/--output-dir.  It also hands
\* over its --format list (report.rs:52), for which run_reporter
\* (mod.rs:76) has no parameter: the list takes no part in the arguments.
ReporterOverrides(c, a) ==
    IF c = "audit" THEN [input_dir |-> None, output_dir |-> None]
    ELSE [input_dir |-> a.input_dir, output_dir |-> a.output_dir]

\* variant: the explainer is run without the caller's values
StageArgs_explainer_no_overrides(s, c, a, cfg) ==
    CASE s = "Collect" -> collector_args(a.use_mock, a.project_id, cfg)
      [] s = "Explain" -> explainer_args(None, None, cfg)
      [] s = "Report"  ->
            reporter_args(ReporterOverrides(c, a).input_dir,
                          ReporterOverrides(c, a).output_dir, cfg)

StageArgs(s, c, a, cfg) ==
    CASE s = "Collect" -> collector_args(a.use_mock, a.project_id, cfg)
      [] s = "Explain" -> explainer_args(a.use_mock, a.project_id, cfg)
      [] s = "Report"  ->
            reporter_args(ReporterOverrides(c, a).input_dir,
                          ReporterOverrides(c, a).output_dir, cfg)

ProgressMessage(s) ==
    CASE s = "Collect" -> "Running collector agent..."
      [] s = "Explain" -> "Running explainer agent..."
      [] s = "Report"  -> "Running reporter agent..."

----------------------------------------------------------------------------
(* The progress bar *)

NoProgress == [attached |-> FALSE, msg |-> "", finished |-> FALSE]

with_progress(p) == [p EXCEPT !.attached = TRUE]

\* variant: the message is not handed to the progress bar
set_progress_message_dropped(p, m) == p

set_progress_message(p, m) == IF p.attached THEN [p EXCEPT !.msg = m] ELSE p

finish_progress(p) == IF p.attached THEN [p EXCEPT !.finished = TRUE] ELSE p

----------------------------------------------------------------------------
(* Initial state: a command, its arguments and a configuration *)

\* where the command continues once validation has passed or been skipped
AfterValidation(c) ==
    CASE c = "audit"   -> "ensure_directories"
      [] c = "collect" -> "create_dir"
      [] c = "analyze" -> "gate"
      [] c = "report"  -> "gate"

\* the single stage a single-stage command runs; audit starts at Collect
FirstStage(c) ==
    CASE c = "audit"   -> 1
      [] c = "collect" -> 1
      [] c = "analyze" -> 2
      [] c = "report"  -> 3

\* the configuration files of a run whose configuration is already loaded
ConfigPaths == {"paddi.toml", ".paddi.toml", UserConfigFile, "custom.toml"}

NoFiles == [p \in ConfigPaths |-> Absent]

\* the state of a directory path: "blocked" is a path create_dir_all
\* cannot turn into a directory (a file in its place, no permission)
DirStates == {"absent", "exists", "blocked"}

\* the empty path is the working directory, which exists
DirsOf(cfg) ==
    {d \in [{"data", "output"} -> DirStates] :
        /\ cfg.paths.data_dir = "" => d["data"] = "exists"
        /\ cfg.paths.output_dir = "" => d["output"] = "exists"}

NoDirs == [d \in {"data", "output"} |-> "absent"]

NoProbes == [python |-> None, agents |-> None, gate |-> None]

\* the state of a command about to run with the configuration `config`
CommandStart ==
    /\ dirs \in (IF cmd = "audit" THEN DirsOf(config) ELSE {NoDirs})
    /\ probes = NoProbes
    /\ stage = [s \in StageSet |-> "Pending"]
    /\ launches = [p \in Programs |-> 0]
    /\ order = <<>>
    /\ argv = [s \in StageSet |-> <<>>]
    /\ child = NoChild
    /\ elapsed = 0
    /\ ret = NoRet
    /\ progress = NoProgress
    /\ errorLog = <<>>
    /\ result = NoResult

Init ==
    /\ cmd \in Commands
    /\ args \in (IF cmd = "report" THEN ReportArgs ELSE DomainArgs)
    /\ config \in Configs
    /\ cli = [config |-> None]
    /\ cfs = NoFiles
    /\ userDir = TRUE
    /\ reads = <<>>
    /\ loaded = OkConfig(config)
    /\ pc = IF args.skip_validation THEN AfterValidation(cmd) ELSE "check_python"
    /\ cur = FirstStage(cmd)
    /\ CommandStart

\* a command returns: its Result<()> goes to main
Return(r) ==
    /\ result' = r
    /\ pc' = "done"

----------------------------------------------------------------------------
(* Pre-flight validation (each command runs it unless --skip-validation) *)

\* variant: the outcome of the version query is not looked at
check_python_available_unchecked ==
    /\ pc = "check_python"
    /\ launches' = [launches EXCEPT ![VersionProbe] = @ + 1]
    /\ \E outcome \in {"ok", "nonzero", "spawn_failed"} :
         /\ probes' = [probes EXCEPT !.python = Some(outcome)]
         /\ pc' = "check_agents"
         /\ UNCHANGED result
    /\ UNCHANGED <<cfgvars, dirs, cmd, args, config, cur, stage, order, argv, child, elapsed,
                   ret, progress, errorLog>>

\* Command::new(python_cmd).arg("--version").output(): no timeout applies
check_python_available ==
    /\ pc = "check_python"
    /\ launches' = [launches EXCEPT ![VersionProbe] = @ + 1]
    /\ \E outcome \in {"ok", "nonzero", "spawn_failed"} :
         /\ probes' = [probes EXCEPT !.python = Some(outcome)]
         /\ CASE outcome = "ok" ->
                   /\ pc' = "check_agents"
                   /\ UNCHANGED result
              [] outcome = "nonzero" ->
                   Return(Err("Python command is not available", <<>>, "none"))
              [] outcome = "spawn_failed" ->
                   Return(Err("Failed to check Python availability", <<>>, "io"))
    /\ UNCHANGED <<cfgvars, dirs, cmd, args, config, cur, stage, order, argv, child, elapsed,
                   ret, progress, errorLog>>

\* variant: only the collector and the explainer scripts are looked for
FirstMissing_reporter_unchecked(present) ==
    IF \A i \in 1..2 : agents[i] \in present THEN 0
    ELSE CHOOSE i \in 1..2 :
            /\ agents[i] \notin present
            /\ \A j \in 1..(i - 1) : agents[j] \in present

\* the first script of `agents` that try_exists does not find, 0 if none
FirstMissing(present) ==
    IF \A i \in 1..Len(agents) : agents[i] \in present THEN 0
    ELSE CHOOSE i \in 1..Len(agents) :
            /\ agents[i] \notin present
            /\ \A j \in 1..(i - 1) : agents[j] \in present

check_agents_exist ==
    /\ pc = "check_agents"
    /\ \E present \in SUBSET {agents[i] : i \in 1..Len(agents)} :
         /\ probes' = [probes EXCEPT !.agents = Some(present)]
         /\ IF FirstMissing(present) = 0
            THEN /\ pc' = AfterValidation(cmd)
                 /\ UNCHANGED result
            ELSE Return(Err("Agent not found: {}", agents[FirstMissing(present)], "none"))
    /\ UNCHANGED <<cfgvars, dirs, cmd, args, config, cur, stage, launches, order, argv, child,
                   elapsed, ret, progress, errorLog>>

----------------------------------------------------------------------------
(* File gates and directory creation of the commands *)

\* what try_exists answered for the file `name` joined to the path `dir`
GateProbe(dir, name, exists) == [dir |-> dir, name |-> name, exists |-> exists]

\* variant: the answer of try_exists is not looked at
analyze_gate_unchecked ==
    /\ pc = "gate"
    /\ cmd = "analyze"
    /\ \E exists \in BOOLEAN :
         /\ probes' = [probes EXCEPT !.gate =
                          Some(GateProbe(config.paths.data_dir, "collected.json", exists))]
         /\ progress' = with_progress(progress)
         /\ pc' = "launch"
         /\ UNCHANGED result
    /\ UNCHANGED <<cfgvars, dirs, cmd, args, config, cur, stage, launches, order, argv, child,
                   elapsed, ret, errorLog>>

\* analyze: <data_dir>/collected.json must exist
analyze_gate ==
    /\ pc = "gate"
    /\ cmd = "analyze"
    /\ \E exists \in BOOLEAN :
         /\ probes' = [probes EXCEPT !.gate =
                          Some(GateProbe(config.paths.data_dir, "collected.json", exists))]
         /\ IF exists
            THEN /\ progress' = with_progress(progress)
                 /\ pc' = "launch"
                 /\ UNCHANGED result
            ELSE /\ Return(Err("Input file not found: {}", config.paths.data_dir, "none"))
                 /\ UNCHANGED progress
    /\ UNCHANGED <<cfgvars, dirs, cmd, args, config, cur, stage, launches, order, argv, child,
                   elapsed, ret, errorLog>>

\* report: <input_dir or data_dir>/explained.json must exist
report_gate ==
    /\ pc = "gate"
    /\ cmd = "report"
    /\ \E exists \in BOOLEAN :
         /\ probes' = [probes EXCEPT !.gate =
                          Some(GateProbe(UnwrapOr(args.input_dir, config.paths.data_dir),
                                         "explained.json", exists))]
         /\ IF exists
            THEN /\ progress' = with_progress(progress)
                 /\ pc' = "create_dir"
                 /\ UNCHANGED result
            ELSE /\ Return(Err("Input file not found: {}",
                               UnwrapOr(args.input_dir, config.paths.data_dir), "none"))
                 /\ UNCHANGED progress
    /\ UNCHANGED <<cfgvars, dirs, cmd, args, config, cur, stage, launches, order, argv, child,
                   elapsed, ret, errorLog>>

\* collect: tokio::fs::create_dir_all("data").await?
collect_create_dir ==
    /\ pc = "create_dir"
    /\ cmd = "collect"
    /\ progress' = with_progress(progress)
    /\ \E created \in BOOLEAN :
         IF created
         THEN /\ pc' = "launch"
              /\ UNCHANGED result
         ELSE Return(Err("create_dir_all", "data", "io"))
    /\ UNCHANGED <<cfgvars, dirs, probes, cmd, args, config, cur, stage, launches, order, argv, child,
                   elapsed, ret, errorLog>>

\* report: tokio::fs::create_dir_all(output_dir).await?
report_create_dir ==
    /\ pc = "create_dir"
    /\ cmd = "report"
    /\ \E created \in BOOLEAN :
         IF created
         THEN /\ pc' = "launch"
              /\ UNCHANGED result
         ELSE Return(Err("create_dir_all",
                         UnwrapOr(args.output_dir, config.paths.output_dir), "io"))
    /\ UNCHANGED <<cfgvars, dirs, probes, cmd, args, config, cur, stage, launches, order, argv, child,
                   elapsed, ret, progress, errorLog>>

\* variant: create_dir, which fails on a directory that exists
create_dir_all_not_idempotent(state) == state = "absent"

\* tokio::fs::create_dir_all succeeds on a directory that exists and on a
\* path it can create
create_dir_all(state) == state # "blocked"

\* audit: the orchestrator is built with a progress bar and run_full_audit
\* starts with ensure_directories: data_dir first, then output_dir
ensure_directories ==
    /\ pc = "ensure_directories"
    /\ cmd = "audit"
    /\ progress' = with_progress(progress)
    /\ IF ~create_dir_all(dirs["data"])
       THEN /\ Return(Err("Failed to create data directory", <<>>, "io"))
            /\ UNCHANGED dirs
       ELSE IF ~create_dir_all(dirs["output"])
       THEN /\ Return(Err("Failed to create output directory", <<>>, "io"))
            /\ dirs' = [dirs EXCEPT !["data"] = "exists"]
       ELSE /\ pc' = "launch"
            /\ dirs' = [d \in {"data", "output"} |-> "exists"]
            /\ UNCHANGED result
    /\ UNCHANGED <<cfgvars, probes, cmd, args, config, cur, stage, launches, order, argv, child,
                   elapsed, ret, errorLog>>

----------------------------------------------------------------------------
(* The stage invoker: run_collector / run_explainer / run_reporter and
   run_python_agent *)

\* run_<stage> sets the progress message, derives the arguments and calls
\* run_python_agent, which builds the command and spawns the child
\* (Command::output spawns at once; a spawn failure is its io::Error)
run_agent ==
    /\ pc = "launch"
    /\ LET s == Stages[cur] IN
         /\ progress' = set_progress_message(progress, ProgressMessage(s))
         /\ argv' = [argv EXCEPT ![s] = StageArgs(s, cmd, args, config)]
         /\ launches' = [launches EXCEPT ![Script(s)] = @ + 1]
         /\ order' = Append(order, s)
         /\ elapsed' = 0
         /\ \E spawned \in BOOLEAN :
              IF spawned
              THEN /\ child' = [NoChild EXCEPT !.state = "running"]
                   /\ stage' = [stage EXCEPT ![s] = "Running"]
                   /\ pc' = "await"
                   /\ UNCHANGED ret
              ELSE /\ child' = NoChild
                   /\ stage' = [stage EXCEPT ![s] = "Failed"]
                   /\ ret' = Err("Failed to execute Python agent", <<>>, "io")
                   /\ pc' = "returned"
    /\ UNCHANGED <<cfgvars, dirs, probes, cmd, args, config, cur, errorLog, result>>

\* the child process runs to its end: exit status and both captured streams
child_exit ==
    /\ pc = "await"
    /\ child.state = "running"
    /\ \E code \in 0..MaxExitCode, out \in StdoutSet, err \in StderrSet :
         child' = [state |-> "exited", code |-> code, stdout |-> out, stderr |-> err]
    /\ UNCHANGED <<cfgvars, dirs, probes, cmd, args, config, pc, cur, stage, launches, order, argv,
                   elapsed, ret, progress, errorLog, result>>

\* a second of the timeout passes
tick ==
    /\ pc = "await"
    /\ elapsed < config.execution.timeout_seconds
    /\ elapsed < MaxTimeout
    /\ elapsed' = elapsed + 1
    /\ UNCHANGED <<cfgvars, dirs, probes, cmd, args, config, pc, cur, stage, launches, order, argv,
                   child, ret, progress, errorLog, result>>

\* ExitStatus::success
success(code) == code = 0

\* variant: the two captured streams end up in each other's field
AgentResult_streams_swapped(c) ==
    [kind |-> "Ok",
     v |-> [success |-> success(c.code),
            output |-> from_utf8_lossy(c.stderr),
            error |-> from_utf8_lossy(c.stdout)]]

\* Ok(AgentResult { success, output: stdout, error: stderr })
AgentResult(c) ==
    [kind |-> "Ok",
     v |-> [success |-> success(c.code),
            output |-> from_utf8_lossy(c.stdout),
            error |-> from_utf8_lossy(c.stderr)]]

\* variant: the command is built without kill_on_drop(true)
kill_on_drop_unset(c) == c

\* dropping the Child of a command built with kill_on_drop(true) kills it
kill_on_drop(c) == [c EXCEPT !.state = "killed"]

DeadlineElapsed == elapsed >= config.execution.timeout_seconds

\* variant: cmd.output() is awaited without a timeout
run_python_agent_no_deadline ==
    /\ pc = "await"
    /\ child.state = "exited"
    /\ ret' = AgentResult(child)
    /\ stage' = [stage EXCEPT ![Stages[cur]] =
                    IF success(child.code) THEN "Succeeded" ELSE "Failed"]
    /\ pc' = "returned"
    /\ UNCHANGED <<cfgvars, dirs, probes, cmd, args, config, cur, launches, order, argv, elapsed,
                   child, progress, errorLog, result>>

\* variant: the deadline is polled before the output future
run_python_agent_deadline_first ==
    /\ pc = "await"
    /\ child.state = "exited" \/ DeadlineElapsed
    /\ IF ~DeadlineElapsed
       THEN /\ ret' = AgentResult(child)
            /\ stage' = [stage EXCEPT ![Stages[cur]] =
                            IF success(child.code) THEN "Succeeded" ELSE "Failed"]
            /\ UNCHANGED child
       ELSE /\ child' = kill_on_drop(child)
            /\ ret' = Err("Agent execution timed out", <<>>, "elapsed")
            /\ stage' = [stage EXCEPT ![Stages[cur]] = "Failed"]
    /\ pc' = "returned"
    /\ UNCHANGED <<cfgvars, dirs, probes, cmd, args, config, cur, launches, order, argv, elapsed,
                   progress, errorLog, result>>

\* variant: the child is spawned and not awaited
run_python_agent_detached ==
    /\ pc = "await"
    /\ ret' = AgentResult(NoChild)
    /\ pc' = "returned"
    /\ UNCHANGED <<cfgvars, dirs, probes, cmd, args, config, cur, stage, launches, order, argv, elapsed,
                   child, progress, errorLog, result>>

\* timeout(timeout_duration, cmd.output()).await: the output future is
\* polled first, the deadline second; on Elapsed the future is dropped
run_python_agent ==
    /\ pc = "await"
    /\ child.state = "exited" \/ DeadlineElapsed
    /\ IF child.state = "exited"
       THEN /\ ret' = AgentResult(child)
            /\ stage' = [stage EXCEPT ![Stages[cur]] =
                            IF success(child.code) THEN "Succeeded" ELSE "Failed"]
            /\ UNCHANGED child
       ELSE /\ child' = kill_on_drop(child)
            /\ ret' = Err("Agent execution timed out", <<>>, "elapsed")
            /\ stage' = [stage EXCEPT ![Stages[cur]] = "Failed"]
    /\ pc' = "returned"
    /\ UNCHANGED <<cfgvars, dirs, probes, cmd, args, config, cur, launches, order, argv, elapsed,
                   progress, errorLog, result>>

----------------------------------------------------------------------------
(* The callers of the invoker *)

\* bail!("<Stage> agent failed")
FailedText(s) ==
    CASE s = "Collect" -> "Collector agent failed"
      [] s = "Explain" -> "Explainer agent failed"
      [] s = "Report"  -> "Reporter agent failed"

\* error!("<Stage> agent failed: {}", result.error)
ErrorRecord(s, stderr) == <<[text |-> FailedText(s), detail |-> stderr]>>

\* variant: the pipeline is finished one stage early
AuditContinue_one_stage_short ==
    IF cur < Len(Stages) - 1
    THEN /\ cur' = cur + 1
         /\ pc' = "launch"
         /\ UNCHANGED <<progress, errorLog, result>>
    ELSE /\ progress' = finish_progress(progress)
         /\ Return(Ok)
         /\ UNCHANGED <<cur, errorLog>>

\* run_full_audit after a successful stage: go on to the next stage, or
\* finish_progress and Ok(()) after Report
AuditContinue ==
    IF cur < Len(Stages)
    THEN /\ cur' = cur + 1
         /\ pc' = "launch"
         /\ UNCHANGED <<progress, errorLog, result>>
    ELSE /\ progress' = finish_progress(progress)
         /\ Return(Ok)
         /\ UNCHANGED <<cur, errorLog>>

\* Faulty variants of run_full_audit, used to show that the properties
\* below are decided by its code.
\* variant: the success flag of the AgentResult is not tested
run_full_audit_unchecked_success ==
    /\ pc = "returned"
    /\ cmd = "audit"
    /\ IF ret.kind = "Err"
       THEN /\ Return(ret)
            /\ UNCHANGED <<cur, progress, errorLog>>
       ELSE AuditContinue
    /\ UNCHANGED <<cfgvars, dirs, probes, cmd, args, config, stage, launches, order, argv, child,
                   elapsed, ret>>

\* variant: an Err of the invoker is dropped instead of propagated with `?`
run_full_audit_dropped_err ==
    /\ pc = "returned"
    /\ cmd = "audit"
    /\ IF ret.kind = "Ok" /\ ~ret.v.success
       THEN /\ errorLog' = <<[text |-> "agent failed", detail |-> ret.v.error]>>
            /\ Return(Err("agent failed", <<>>, "none"))
            /\ UNCHANGED <<cur, progress>>
       ELSE AuditContinue
    /\ UNCHANGED <<cfgvars, dirs, probes, cmd, args, config, stage, launches, order, argv, child,
                   elapsed, ret>>

\* variant: a failure of the invoker is reported as a stage failure
run_full_audit_err_as_stage_failure ==
    /\ pc = "returned"
    /\ cmd = "audit"
    /\ IF ret.kind = "Err" \/ ~ret.v.success
       THEN /\ errorLog' = ErrorRecord(Stages[cur], <<>>)
            /\ Return(Err(FailedText(Stages[cur]), <<>>, "none"))
            /\ UNCHANGED <<cur, progress>>
       ELSE AuditContinue
    /\ UNCHANGED <<cfgvars, dirs, probes, cmd, args, config, stage, launches, order, argv, child,
                   elapsed, ret>>

\* variant: a stage that did not succeed is run a second time
run_full_audit_retry_once ==
    /\ pc = "returned"
    /\ cmd = "audit"
    /\ IF (ret.kind = "Err" \/ ~ret.v.success) /\ launches[Script(Stages[cur])] < 2
       THEN /\ pc' = "launch"
            /\ UNCHANGED <<cur, progress, errorLog, result>>
       ELSE IF ret.kind = "Err"
       THEN /\ Return(ret)
            /\ UNCHANGED <<cur, progress, errorLog>>
       ELSE IF ~ret.v.success
       THEN /\ errorLog' = ErrorRecord(Stages[cur], ret.v.error)
            /\ Return(Err(FailedText(Stages[cur]), <<>>, "none"))
            /\ UNCHANGED <<cur, progress>>
       ELSE AuditContinue
    /\ UNCHANGED <<cfgvars, dirs, probes, cmd, args, config, stage, launches, order, argv, child,
                   elapsed, ret>>

\* run_full_audit after a stage returned: `?` on the Result, then the
\* success test; the next stage, or finish_progress and Ok(()) after Report.
\* audit::run propagates the error with `?`.
run_full_audit ==
    /\ pc = "returned"
    /\ cmd = "audit"
    /\ IF ret.kind = "Err"
       THEN /\ Return(ret)
            /\ UNCHANGED <<cur, progress, errorLog>>
       ELSE IF ~ret.v.success
       THEN /\ errorLog' = ErrorRecord(Stages[cur], ret.v.error)
            /\ Return(Err(FailedText(Stages[cur]), <<>>, "none"))
            /\ UNCHANGED <<cur, progress>>
       ELSE AuditContinue
    /\ UNCHANGED <<cfgvars, dirs, probes, cmd, args, config, stage, launches, order, argv, child,
                   elapsed, ret>>

\* bail!("Collection failed: {}", result.error) and its siblings
SingleFailedText(c) ==
    CASE c = "collect" -> "Collection failed: {}"
      [] c = "analyze" -> "Analysis failed: {}"
      [] c = "report"  -> "Report generation failed: {}"

\* variant: the success field of the AgentResult is not looked at
SingleStageResult_success_unchecked(c, r) ==
    IF r.kind = "Err" THEN r ELSE Ok

\* what a single-stage command returns for the Result of its stage:
\* `?` on an Err, Ok(()) on success, bail! with the stage's stderr otherwise
SingleStageResult(c, r) ==
    IF r.kind = "Err" THEN r
    ELSE IF r.v.success THEN Ok
    ELSE Err(SingleFailedText(c), r.v.error, "none")

collect_run ==
    /\ pc = "returned"
    /\ cmd = "collect"
    /\ Return(SingleStageResult("collect", ret))
    /\ UNCHANGED <<cfgvars, dirs, probes, cmd, args, config, cur, stage, launches, order, argv, child,
                   elapsed, ret, progress, errorLog>>

analyze_run ==
    /\ pc = "returned"
    /\ cmd = "analyze"
    /\ Return(SingleStageResult("analyze", ret))
    /\ UNCHANGED <<cfgvars, dirs, probes, cmd, args, config, cur, stage, launches, order, argv, child,
                   elapsed, ret, progress, errorLog>>

report_run ==
    /\ pc = "returned"
    /\ cmd = "report"
    /\ Return(SingleStageResult("report", ret))
    /\ UNCHANGED <<cfgvars, dirs, probes, cmd, args, config, cur, stage, launches, order, argv, child,
                   elapsed, ret, progress, errorLog>>

----------------------------------------------------------------------------

Next ==
    \/ check_python_available
    \/ check_agents_exist
    \/ analyze_gate
    \/ report_gate
    \/ collect_create_dir
    \/ report_create_dir
    \/ ensure_directories
    \/ run_agent
    \/ child_exit
    \/ tick
    \/ run_python_agent
    \/ run_full_audit
    \/ collect_run
    \/ analyze_run
    \/ report_run

Spec == Init /\ [][Next]_vars

----------------------------------------------------------------------------
(* Properties of the pipeline controller and the stage invoker *)

Launched(s) == launches[Script(s)] > 0

\* C1: in run_full_audit, once a stage has failed (non-zero exit, timeout
\* or spawn failure) no later stage's script is ever invoked, every later
\* stage stays Pending, no further invocation is started, and the run
\* returns an error.
C1_HaltOnFirstFailure ==
    cmd = "audit" =>
        \A i \in 1..Len(Stages) :
            stage[Stages[i]] = "Failed" =>
                /\ \A j \in (i + 1)..Len(Stages) :
                      /\ launches[Script(Stages[j])] = 0
                      /\ stage[Stages[j]] = "Pending"
                /\ pc \in {"returned", "done"}
                /\ pc = "done" => result.kind = "Err"

\* C1 witness: the audit has returned after Explain failed
C1_Witness ==
    /\ cmd = "audit"
    /\ pc = "done"
    /\ stage["Collect"] = "Succeeded"
    /\ stage["Explain"] = "Failed"
    /\ result.kind = "Err"

\* C2: in a pipeline run a stage is Running only if it is the first stage
\* or the stage before it has reached Succeeded.
C2_RunningAfterPredecessorSucceeded ==
    cmd = "audit" =>
        \A i \in 1..Len(Stages) :
            stage[Stages[i]] = "Running" =>
                (i = 1 \/ stage[Stages[i - 1]] = "Succeeded")

\* C2 witness: Report is Running
C2_Witness ==
    /\ cmd = "audit"
    /\ stage["Report"] = "Running"
    /\ stage["Explain"] = "Succeeded"

TimedOut(r) == r.kind = "Err" /\ r.text = "Agent execution timed out"

ExitedNonZero(r) == r.kind = "Ok" /\ ~r.v.success

\* C3: when a stage of run_full_audit exits non-zero, the error returned to
\* the caller names the failed stage and carries that stage's captured
\* stderr.
C3_FailureCarriesStderr ==
    (cmd = "audit" /\ pc = "done" /\ ExitedNonZero(ret)) =>
        /\ result.kind = "Err"
        /\ result.text = FailedText(Stages[cur])
        /\ result.detail = ret.v.error

\* C4: when the race of an invocation is lost by the subprocess (the
\* deadline has elapsed and the child has not completed), the invoker
\* returns the Timeout error and no AgentResult, and the child has been
\* killed: once the invoker has returned no child is still running.
C4_TimeoutKillsChild ==
    /\ pc # "await" => child.state # "running"
    /\ child.state = "killed" => (TimedOut(ret) /\ DeadlineElapsed)
    /\ TimedOut(ret) => child.state = "killed"
    /\ (pc \in {"returned", "done"} /\ ret.kind = "Ok") => child.state = "exited"

\* C4 witness: an invocation has returned Timeout and its child is killed
C4_Witness ==
    /\ pc = "returned"
    /\ TimedOut(ret)
    /\ child.state = "killed"
    /\ elapsed = config.execution.timeout_seconds
    /\ elapsed > 0

\* what run_full_audit leaves behind whenever stage cur did not succeed:
\* the run failed, no later stage was started, the progress bar still shows
\* the stage's message and has not been finished
AuditHaltedAt(i) ==
    /\ result.kind = "Err"
    /\ \A j \in (i + 1)..Len(Stages) :
          launches[Script(Stages[j])] = 0 /\ stage[Stages[j]] = "Pending"
    /\ progress = [attached |-> TRUE, msg |-> ProgressMessage(Stages[i]),
                   finished |-> FALSE]

\* C5 as stated: a Timeout of stage N ends run_full_audit exactly as a
\* non-zero exit of stage N does, the returned outcome included.
C5_TimeoutSameOutcomeAsNonZero ==
    (cmd = "audit" /\ pc = "done" /\ TimedOut(ret)) =>
        /\ AuditHaltedAt(cur)
        /\ result = Err(FailedText(Stages[cur]), <<>>, "none")

\* C5 amended: a Timeout of stage N and a non-zero exit of stage N both end
\* run_full_audit in failure with no later stage started and the progress
\* bar in the same state; the returned errors differ: the non-zero exit
\* returns "<Stage> agent failed", the Timeout returns the invoker's
\* "Agent execution timed out" error, which does not name the stage.
C5_TimeoutHaltsLikeNonZero ==
    (cmd = "audit" /\ pc = "done") =>
        /\ TimedOut(ret) =>
              /\ AuditHaltedAt(cur)
              /\ result = Err("Agent execution timed out", <<>>, "elapsed")
              /\ errorLog = <<>>
        /\ ExitedNonZero(ret) =>
              /\ AuditHaltedAt(cur)
              /\ result = Err(FailedText(Stages[cur]), <<>>, "none")

\* C5 witness: the audit has returned after Explain timed out
C5_Witness ==
    /\ cmd = "audit"
    /\ pc = "done"
    /\ cur = 2
    /\ TimedOut(ret)
    /\ result.kind = "Err"

\* C6: an invocation whose child completed returns an AgentResult, not an
\* error; success is true exactly when the exit status is zero; the error
\* field holds the captured stderr and the output field the captured stdout
\* (each decoded on its own), so the streams are never merged.
C6_CompletionYieldsAgentResult ==
    (pc \in {"returned", "done"} /\ child.state = "exited") =>
        /\ ret.kind = "Ok"
        /\ ret.v.success = (child.code = 0)
        /\ Len(ret.v.error) = Len(child.stderr)
        /\ \A i \in 1..Len(child.stderr) :
              ret.v.error[i] = IF child.stderr[i] < 128 THEN child.stderr[i] ELSE 65533
        /\ Len(ret.v.output) = Len(child.stdout)
        /\ \A i \in 1..Len(child.stdout) :
              ret.v.output[i] = IF child.stdout[i] < 128 THEN child.stdout[i] ELSE 65533

\* C6 witness: a child exited with status 1, "boom" on stderr, "ok" on stdout
C6_Witness ==
    /\ pc = "returned"
    /\ child.state = "exited"
    /\ child.code = 1
    /\ ret.kind = "Ok"
    /\ ~ret.v.success
    /\ ret.v.error = <<98, 111, 111, 109>>
    /\ ret.v.output = <<111, 107>>

\* C7: no automatic retries: in every run of every command each stage
\* script is launched at most once, also after a non-zero exit, a timeout
\* or a spawn failure.
C7_NoRetry ==
    /\ \A s \in StageSet : launches[Script(s)] <= 1
    /\ Len(order) <= Len(Stages)
    /\ \A i, j \in 1..Len(order) : order[i] = order[j] => i = j
    /\ (cmd # "audit") => Len(order) <= 1

\* C7 witness: a command has returned after its stage failed, and the
\* stage was launched once
C7_Witness ==
    /\ pc = "done"
    /\ stage[Stages[cur]] = "Failed"
    /\ launches[Script(Stages[cur])] = 1
    /\ ret.kind = "Err"

\* C8: if every stage script of run_full_audit that is started exits with
\* status zero within its deadline, the run invokes Collect, Explain and
\* Report exactly once each in that order, every stage ends Succeeded and
\* the run returns success (and finishes the progress bar).
C8_AllSucceed ==
    (/\ cmd = "audit"
     /\ pc = "done"
     /\ stage["Collect"] = "Succeeded"
     /\ \A s \in StageSet : stage[s] # "Failed") =>
        /\ order = Stages
        /\ \A s \in StageSet : launches[Script(s)] = 1 /\ stage[s] = "Succeeded"
        /\ result = Ok
        /\ progress.finished

\* C8 witness: the audit has returned success
C8_Witness ==
    /\ cmd = "audit"
    /\ pc = "done"
    /\ result = Ok
    /\ order = <<"Collect", "Explain", "Report">>

\* the values the argument vector av carries for the flag name
FlagValues(av, name) == {av[i].val : i \in {j \in 1..Len(av) : av[j].flag = name}}

\* C9: for every launched stage and each of use_mock, project_id,
\* input_dir, output_dir: when the caller gave an override and the
\* configuration holds a different value, the argument carries the
\* override and not the configured value.
C9_OverridePrecedence ==
    \A s \in StageSet :
        Launched(s) =>
            /\ (s \in {"Collect", "Explain"} /\ args.use_mock.some
                    /\ args.use_mock.v # config.gcp.use_mock) =>
                  FlagValues(argv[s], "--use_mock")
                      = {IF args.use_mock.v THEN "true" ELSE "false"}
            /\ (s \in {"Collect", "Explain"} /\ args.project_id.some
                    /\ config.gcp.project_id.some
                    /\ args.project_id.v # config.gcp.project_id.v) =>
                  FlagValues(argv[s], "--project_id") = {args.project_id.v}
            /\ (s = "Report" /\ args.input_dir.some
                    /\ args.input_dir.v # config.paths.data_dir) =>
                  FlagValues(argv[s], "--input_dir") = {args.input_dir.v}
            /\ (s = "Report" /\ args.output_dir.some
                    /\ args.output_dir.v # config.paths.output_dir) =>
                  FlagValues(argv[s], "--output_dir") = {args.output_dir.v}

\* C9 witness: the collector was launched with --project_id overriding a
\* different configured project id, and --use_mock overriding the
\* configured use_mock
C9_Witness ==
    /\ Launched("Collect")
    /\ args.project_id = Some("cli-proj")
    /\ config.gcp.project_id = Some("cfg-proj")
    /\ args.use_mock = Some(FALSE)
    /\ config.gcp.use_mock = TRUE
    /\ argv["Collect"] = <<Flag("--use_mock", "false"), Flag("--project_id", "cli-proj")>>

\* C10: with no caller override, a parameter's flag is passed exactly when
\* the configuration holds a non-empty value for it, and then with that
\* value; an empty configured value gives no flag.
C10_FallbackOmitsEmpty ==
    \A s \in StageSet :
        Launched(s) =>
            /\ (s \in {"Collect", "Explain"} /\ ~args.project_id.some) =>
                  FlagValues(argv[s], "--project_id")
                      = IF config.gcp.project_id.some /\ config.gcp.project_id.v # ""
                        THEN {config.gcp.project_id.v} ELSE {}
            /\ (s = "Report" /\ ~ReporterOverrides(cmd, args).input_dir.some) =>
                  FlagValues(argv[s], "--input_dir")
                      = IF config.paths.data_dir # ""
                        THEN {config.paths.data_dir} ELSE {}
            /\ (s = "Report" /\ ~ReporterOverrides(cmd, args).output_dir.some) =>
                  FlagValues(argv[s], "--output_dir")
                      = IF config.paths.output_dir # ""
                        THEN {config.paths.output_dir} ELSE {}

----------------------------------------------------------------------------
(* The report formats *)

\* a list of formats joined by commas, kept as its parts
RECURSIVE JoinComma(_)
JoinComma(list) ==
    IF Len(list) = 0 THEN <<>>
    ELSE IF Len(list) = 1 THEN <<list[1]>>
    ELSE <<list[1], ",">> \o JoinComma(Tail(list))

\* the number of arguments of av that are the flag name
FlagCount(av, name) == Cardinality({j \in 1..Len(av) : av[j].flag = name})

\* C11: when the report command is given a list of formats, the reporter
\* subprocess receives exactly one --format flag, whose value is the list
\* joined by commas; with no format it receives no --format flag.
C11_FormatFlag ==
    (cmd = "report" /\ Launched("Report")) =>
        IF args.format.some
        THEN /\ FlagCount(argv["Report"], "--format") = 1
             /\ FlagValues(argv["Report"], "--format") = {JoinComma(args.format.v)}
        ELSE FlagCount(argv["Report"], "--format") = 0

----------------------------------------------------------------------------
(* The Config API on one file: Config::from_file on a file as found, and
   Config::save followed by Config::from_file (config/tests.rs, and the
   config subcommand's init and validate) *)

ConfigFile == "custom.toml"

\* what the file may hold before it is read
FileContents == {Absent, Unreadable, Malformed} \cup {Toml(d) : d \in Docs}

\* the configurations handed to save
SavedConfigs ==
    [python : [command : {"python3", "python"}, agents_path : {"python_agents"}],
     gcp : [project_id : {None, Some(""), Some("test-project")},
            use_mock : BOOLEAN],
     paths : [data_dir : {"data", ""}, output_dir : {"output"}],
     execution : [parallel : BOOLEAN, timeout_seconds : {0, DefaultTimeout}]]

NoArgs ==
    [use_mock |-> None, project_id |-> None, input_dir |-> None,
     output_dir |-> None, format |-> None, skip_validation |-> TRUE]

InitApi ==
    /\ cmd = "config"
    /\ args = NoArgs
    /\ cli = [config |-> None]
    /\ userDir = TRUE
    /\ reads = <<>>
    /\ loaded = NoRet
    /\ \/ /\ pc = "from_file"
          /\ config = ConfigDefault
          /\ \E c \in FileContents : cfs = [NoFiles EXCEPT ![ConfigFile] = c]
       \/ /\ pc = "save"
          /\ config \in SavedConfigs
          /\ \E c \in {Absent, Malformed} :
                cfs = [NoFiles EXCEPT ![ConfigFile] = c]
    /\ cur = 1
    /\ CommandStart

\* config.save(path): parent directories, serialization, write
Config_save ==
    /\ pc = "save"
    /\ \E io \in {"ok", "mkdir_failed", "write_failed"} :
         CASE io = "ok" ->
                /\ cfs' = [cfs EXCEPT ![ConfigFile] = to_string_pretty(config)]
                /\ pc' = "saved"
                /\ UNCHANGED result
           [] io = "mkdir_failed" ->
                /\ Return(Err("Failed to create config directory: {}", "", "io"))
                /\ UNCHANGED cfs
           [] io = "write_failed" ->
                /\ Return(Err("Failed to write config file: {}", ConfigFile, "io"))
                /\ \E left \in {cfs[ConfigFile], Malformed} :
                      cfs' = [cfs EXCEPT ![ConfigFile] = left]
    /\ UNCHANGED <<cli, userDir, reads, loaded, dirs, probes, cmd, args, config,
                   cur, stage, launches, order, argv, child, elapsed, ret,
                   progress, errorLog>>

\* Config::from_file(path) on the file as found, or on the file just saved
Config_from_file ==
    /\ pc \in {"from_file", "saved"}
    /\ loaded' = from_file(ConfigFile, cfs)
    /\ reads' = Append(reads, ConfigFile)
    /\ pc' = IF pc = "saved" THEN "reloaded" ELSE "loaded"
    /\ UNCHANGED <<cli, cfs, userDir, dirs, probes, cmd, args, config, cur,
                   stage, launches, order, argv, child, elapsed, ret, progress,
                   errorLog, result>>

NextApi ==
    \/ Config_save
    \/ Config_from_file

SpecApi == InitApi /\ [][NextApi]_vars

\* the groups of a configuration and the fields of each
Groups == {"python", "gcp", "paths", "execution"}

Fields(g) ==
    CASE g = "python"    -> {"command", "agents_path"}
      [] g = "gcp"       -> {"project_id", "use_mock"}
      [] g = "paths"     -> {"data_dir", "output_dir"}
      [] g = "execution" -> {"parallel", "timeout_seconds"}

\* the document gives a value to field f of group g
Specified(d, g, f) == d[g].some /\ d[g].v[f].some

\* C12: a configuration source that specifies only a subset of the fields
\* (any subset of the groups, any subset of the fields of a present group)
\* loads successfully, and every field it leaves unspecified has its
\* built-in default in the loaded configuration.
C12_PartialSourceLoadsWithDefaults ==
    (pc = "loaded" /\ cfs[ConfigFile].kind = "toml") =>
        /\ loaded.kind = "Ok"
        /\ \A g \in Groups : \A f \in Fields(g) :
              ~Specified(cfs[ConfigFile].doc, g, f) =>
                  loaded.v[g][f] = ConfigDefault[g][f]

\* C13: save(cfg, path) followed by from_file(path) succeeds and returns a
\* configuration equal to cfg in every field, whether project_id is absent
\* or present.
C13_RoundTrip ==
    pc = "reloaded" => loaded = OkConfig(config)

C13_Witness ==
    /\ pc = "reloaded"
    /\ ~config.gcp.project_id.some
    /\ config # ConfigDefault
    /\ loaded = OkConfig(config)

----------------------------------------------------------------------------
(* The tool from its start: main resolves the configuration, then runs the
   command (main.rs) *)

\* a document that names its own file as the interpreter command, so that
\* the loaded configuration tells which file it came from
DocFor(path) ==
    [python |-> Some([command |-> Some(path), agents_path |-> None]),
     gcp |-> None,
     paths |-> None,
     execution |-> Some([parallel |-> None, timeout_seconds |-> Some(1)])]

\* what the configuration files may hold when the tool starts
StartFiles ==
    {fs \in [ConfigPaths -> {Absent, Unreadable, Malformed}
                              \cup {Toml(DocFor(p)) : p \in ConfigPaths}] :
        \A p \in ConfigPaths :
            /\ fs[p].kind = "toml" => fs[p] = Toml(DocFor(p))
            /\ fs[p].kind = "unreadable" => p \in {ConfigFile, ".paddi.toml"}}

InitMain ==
    /\ cmd \in Commands
    /\ args \in {[NoArgs EXCEPT !.skip_validation = b] : b \in BOOLEAN}
    /\ cli \in {[config |-> None], [config |-> Some(ConfigFile)]}
    /\ cfs \in StartFiles
    /\ userDir \in BOOLEAN
    /\ reads = <<>>
    /\ loaded = NoRet
    /\ config = ConfigDefault
    /\ pc = "load_config"
    /\ cur = FirstStage(cmd)
    /\ CommandStart

\* where main's match on the command enters the command
Entry(c, a) ==
    CASE c \in Commands ->
            IF a.skip_validation THEN AfterValidation(c) ELSE "check_python"
      [] c = "config" /\ a.command = "init" -> "init_config"
      [] c = "config" /\ a.command = "validate" -> "validate_config"

\* variant: a configuration that fails to load is replaced by the defaults
main_defaults_on_error ==
    /\ pc = "load_config"
    /\ LET r == IF cli.config.some THEN from_file(cli.config.v, cfs)
                ELSE load(cfs, userDir)
           rd == IF cli.config.some THEN <<cli.config.v>>
                 ELSE LoadReads(cfs, userDir)
       IN  /\ loaded' = r
           /\ reads' = reads \o rd
           /\ config' = IF r.kind = "Err" THEN ConfigDefault ELSE r.v
           /\ pc' = Entry(cmd, args)
           /\ UNCHANGED result
    /\ UNCHANGED <<cli, cfs, userDir, dirs, probes, cmd, args, cur, stage,
                   launches, order, argv, child, elapsed, ret, progress,
                   errorLog>>

\* main: Config::from_file(&config_path)? when --config is given, else
\* Config::load()?; then the match on the command
main ==
    /\ pc = "load_config"
    /\ LET r == IF cli.config.some THEN from_file(cli.config.v, cfs)
                ELSE load(cfs, userDir)
           rd == IF cli.config.some THEN <<cli.config.v>>
                 ELSE LoadReads(cfs, userDir)
       IN  /\ loaded' = r
           /\ reads' = reads \o rd
           /\ IF r.kind = "Err"
              THEN /\ Return(r)
                   /\ UNCHANGED config
              ELSE /\ config' = r.v
                   /\ pc' = Entry(cmd, args)
                   /\ UNCHANGED result
    /\ UNCHANGED <<cli, cfs, userDir, dirs, probes, cmd, args, cur, stage,
                   launches, order, argv, child, elapsed, ret, progress,
                   errorLog>>

NextMain ==
    \/ main
    \/ Next

SpecMain == InitMain /\ [][NextMain]_vars

\* the place of a path in the documented search order
Rank(path) ==
    CASE path = "paddi.toml"   -> 1
      [] path = ".paddi.toml"  -> 2
      [] path = UserConfigFile -> 3

\* the files searched: the user-config file only if the platform has a
\* user-config directory
Searched == {"paddi.toml", ".paddi.toml"} \cup (IF userDir THEN {UserConfigFile} ELSE {})

\* the searched files that exist with no existing file before them
Discovered ==
    {p \in Searched :
        /\ cfs[p].kind # "absent"
        /\ \A q \in Searched : Rank(q) < Rank(p) => cfs[q].kind = "absent"}

\* C14: without --config, the first existing file in the order ./paddi.toml,
\* ./.paddi.toml, user-config file is the only one read and its content is
\* what is loaded; when none exists (also when the platform has no
\* user-config directory) nothing is read and the built-in defaults are
\* returned without failure.
C14_LoadFirstExisting ==
    (~cli.config.some /\ pc # "load_config") =>
        IF Discovered = {}
        THEN /\ reads = <<>>
             /\ loaded = OkConfig(ConfigDefault)
        ELSE \E p \in Discovered :
                /\ reads = <<p>>
                /\ cfs[p].kind = "toml" =>
                      /\ loaded.kind = "Ok"
                      /\ loaded.v.python.command = p

C14_Witness ==
    /\ ~cli.config.some
    /\ pc # "load_config"
    /\ cfs["paddi.toml"].kind = "absent"
    /\ cfs[".paddi.toml"].kind = "toml"
    /\ cfs[UserConfigFile].kind = "toml"
    /\ userDir
    /\ reads = <<".paddi.toml">>
    /\ loaded.kind = "Ok"

\* the file the configuration is taken from cannot be read or parsed
ConfigFailure ==
    IF cli.config.some
    THEN cfs[cli.config.v].kind \in {"absent", "unreadable", "malformed"}
    ELSE \E p \in Discovered : cfs[p].kind \in {"unreadable", "malformed"}

\* C20: when the explicit --config file or the first discovered file cannot
\* be read or parsed, the tool returns the error with no validation
\* subprocess and no stage subprocess started.
C20_ConfigFailureAborts ==
    (ConfigFailure /\ pc # "load_config") =>
        /\ pc = "done"
        /\ result.kind = "Err"
        /\ result = loaded
        /\ \A prog \in Programs : launches[prog] = 0
        /\ order = <<>>

C20_Witness ==
    /\ ~cli.config.some
    /\ ~args.skip_validation
    /\ cfs["paddi.toml"].kind = "malformed"
    /\ cfs[".paddi.toml"].kind = "toml"
    /\ pc = "done"
    /\ result.text = "Failed to parse config file: {}"
    /\ result.detail = "paddi.toml"

----------------------------------------------------------------------------
(* Properties of the pre-flight validation, the gates and the directories *)

\* validation ran up to the scripts and found every script but the reporter's
OnlyReporterMissing ==
    /\ ~args.skip_validation
    /\ probes.agents = Some({Script("Collect"), Script("Explain")})

\* C15 as stated: when the reporter script is missing and validation is not
\* skipped, the audit command fails with an error naming that script before
\* any subprocess at all, the interpreter's included, has been spawned.
C15_NoSubprocessBeforeScriptMissing ==
    (cmd = "audit" /\ OnlyReporterMissing) =>
        /\ pc = "done"
        /\ result = Err("Agent not found: {}", Script("Report"), "none")
        /\ \A prog \in Programs : launches[prog] = 0

\* C15 amended: when the interpreter check has passed and only the reporter
\* script is missing, the audit command fails with an error naming that
\* script before any stage subprocess has been spawned; the interpreter has
\* been spawned once, for its version query.
C15_NoStageBeforeScriptMissing ==
    (cmd = "audit" /\ OnlyReporterMissing) =>
        /\ pc = "done"
        /\ result = Err("Agent not found: {}", Script("Report"), "none")
        /\ \A s \in StageSet : launches[Script(s)] = 0
        /\ launches[VersionProbe] = 1

C15_Witness ==
    /\ cmd = "audit"
    /\ OnlyReporterMissing
    /\ pc = "done"
    /\ result.detail = Script("Report")
    /\ order = <<>>

\* the interpreter check failed, or a stage script was not found
ValidationFailed ==
    \/ /\ probes.python.some
       /\ probes.python.v # "ok"
    \/ /\ probes.agents.some
       /\ \E i \in 1..Len(agents) : agents[i] \notin probes.agents.v

\* C16: in the audit, collect, analyze and report commands, without
\* --skip-validation a failing interpreter check or a missing stage script
\* ends the command with an error and no stage invoked; with
\* --skip-validation neither check is run and the command goes on to its
\* gate, directories and stages.
C16_ValidationUnlessSkipped ==
    /\ (~args.skip_validation /\ ValidationFailed) =>
          /\ pc = "done"
          /\ result.kind = "Err"
          /\ \A s \in StageSet : ~Launched(s)
    /\ args.skip_validation =>
          /\ launches[VersionProbe] = 0
          /\ ~probes.python.some
          /\ ~probes.agents.some
          /\ pc \notin {"check_python", "check_agents"}

C16_Witness ==
    /\ cmd = "report"
    /\ ~args.skip_validation
    /\ probes.python = Some("nonzero")
    /\ pc = "done"
    /\ result.kind = "Err"

\* the message with which each single-stage command names its stage
StageFailureMessage ==
    [collect |-> "Collection failed: {}",
     analyze |-> "Analysis failed: {}",
     report  |-> "Report generation failed: {}"]

\* C17: a collect, analyze or report command whose stage does not succeed
\* (non-zero exit, timeout, failure to spawn) returns an error; for a
\* non-zero exit the error names the stage and carries the stderr captured
\* from the stage.
C17_SingleStageFailureIsError ==
    (cmd \in {"collect", "analyze", "report"} /\ pc = "done"
        /\ stage[Stages[cur]] = "Failed") =>
        /\ result.kind = "Err"
        /\ child.state = "exited" =>
              /\ result.text = StageFailureMessage[cmd]
              /\ result.detail = from_utf8_lossy(child.stderr)

C17_Witness ==
    /\ cmd = "analyze"
    /\ pc = "done"
    /\ child.state = "exited"
    /\ child.code # 0
    /\ child.stderr = <<98, 111, 111, 109>>
    /\ result = Err("Analysis failed: {}", <<98, 111, 111, 109>>, "none")

\* the directory in which the report command looks for explained.json
ReportInputDir ==
    IF args.input_dir.some THEN args.input_dir.v ELSE config.paths.data_dir

\* C18: analyze invokes the Explain stage only if <data_dir>/collected.json
\* exists; report invokes the Report stage only if explained.json exists in
\* the --input-dir override when given, else in data_dir; when the gate file
\* is missing the command fails and its stage script is never invoked.
C18_FileGates ==
    /\ (cmd = "analyze" /\ Launched("Explain")) =>
          probes.gate = Some([dir |-> config.paths.data_dir,
                              name |-> "collected.json", exists |-> TRUE])
    /\ (cmd = "report" /\ Launched("Report")) =>
          probes.gate = Some([dir |-> ReportInputDir,
                              name |-> "explained.json", exists |-> TRUE])
    /\ (cmd \in {"analyze", "report"} /\ probes.gate.some
           /\ ~probes.gate.v.exists) =>
          /\ pc = "done"
          /\ result.kind = "Err"
          /\ \A s \in StageSet : launches[Script(s)] = 0

C18_Witness ==
    /\ cmd = "report"
    /\ args.input_dir = Some("in")
    /\ probes.gate = Some([dir |-> "in", name |-> "explained.json",
                           exists |-> FALSE])
    /\ pc = "done"
    /\ result.kind = "Err"
    /\ launches[Script("Report")] = 0

\* the step of run_full_audit that ensures the directories
EnsureStep ==
    pc = "ensure_directories" =>
        IF dirs["data"] # "blocked" /\ dirs["output"] # "blocked"
        THEN /\ pc' = "launch"
             /\ result' = result
             /\ \A d \in {"data", "output"} : dirs'[d] = "exists"
        ELSE /\ pc' = "done"
             /\ result'.kind = "Err"
             /\ \A s \in StageSet : launches'[Script(s)] = 0

\* C19: run_full_audit ensures data_dir and output_dir before the first
\* stage: whenever a stage of the audit has been invoked both directories
\* exist; directories that exist already are not an error; if either
\* cannot be created the run fails with no stage invoked.
C19_DirectoriesBeforeStages ==
    /\ [](cmd = "audit" =>
            /\ (\E s \in StageSet : Launched(s)) =>
                  \A d \in {"data", "output"} : dirs[d] = "exists"
            /\ (\E d \in {"data", "output"} : dirs[d] = "blocked") =>
                  \A s \in StageSet : ~Launched(s))
    /\ [][EnsureStep]_vars

C19_Witness ==
    /\ cmd = "audit"
    /\ dirs = [data |-> "exists", output |-> "blocked"]
    /\ pc = "done"
    /\ result = Err("Failed to create output directory", <<>>, "io")
    /\ order = <<>>

----------------------------------------------------------------------------
(* Properties of the full audit's arguments, progress and scheduling *)

\* C21: in run_full_audit the caller's use_mock and project_id reach both
\* Collect and Explain, whose --use_mock/--project_id arguments are
\* identical; Report gets no --use_mock and no --project_id, only
\* --input_dir and --output_dir with the configured data_dir and output_dir.
C21_AuditArguments ==
    cmd = "audit" =>
        /\ \A s \in {"Collect", "Explain"} :
              Launched(s) =>
                /\ args.use_mock.some =>
                      FlagValues(argv[s], "--use_mock")
                          = {IF args.use_mock.v THEN "true" ELSE "false"}
                /\ args.project_id.some =>
                      FlagValues(argv[s], "--project_id") = {args.project_id.v}
        /\ (Launched("Collect") /\ Launched("Explain")) =>
              argv["Collect"] = argv["Explain"]
        /\ Launched("Report") =>
              /\ argv["Report"]
                    = <<[flag |-> "--input_dir", val |-> config.paths.data_dir],
                        [flag |-> "--output_dir", val |-> config.paths.output_dir]>>
              /\ FlagCount(argv["Report"], "--use_mock") = 0
              /\ FlagCount(argv["Report"], "--project_id") = 0

C21_Witness ==
    /\ cmd = "audit"
    /\ args.use_mock = Some(FALSE)
    /\ config.gcp.use_mock
    /\ args.project_id = Some("cli-proj")
    /\ Launched("Report")
    /\ argv["Explain"] = <<Flag("--use_mock", "false"),
                           Flag("--project_id", "cli-proj")>>
    /\ argv["Collect"] = argv["Explain"]

\* the status message of each stage
StatusMessage ==
    [Collect |-> "Running collector agent...",
     Explain |-> "Running explainer agent...",
     Report  |-> "Running reporter agent..."]

\* the step that launches the subprocess of stage s
LaunchStep(s) == launches'[Script(s)] = launches[Script(s)] + 1

\* C22: with a progress bar attached, the status message of a stage is set
\* by the time its subprocess is launched and is the one shown while the
\* stage runs; in the audit it is not set before the previous stage has
\* succeeded; the bar is finished when the audit completes successfully and
\* never before the last stage has succeeded.
C22_ProgressMessages ==
    /\ [](progress.attached =>
            /\ \A s \in StageSet :
                  stage[s] = "Running" => progress.msg = StatusMessage[s]
            /\ \A i \in 2..3 :
                  (cmd = "audit" /\ progress.msg = StatusMessage[Stages[i]]) =>
                      stage[Stages[i - 1]] = "Succeeded"
            /\ progress.finished =>
                  \A s \in StageSet : stage[s] = "Succeeded"
            /\ (cmd = "audit" /\ pc = "done" /\ result.kind = "Ok") =>
                  progress.finished)
    /\ [][\A s \in StageSet :
            (LaunchStep(s) /\ progress'.attached) =>
                /\ progress'.msg = StatusMessage[s]
                /\ ~progress'.finished]_vars

C22_Witness ==
    /\ cmd = "audit"
    /\ progress.attached
    /\ progress.msg = "Running reporter agent..."
    /\ progress.finished
    /\ pc = "done"
    /\ result.kind = "Ok"

\* the stages whose subprocess is running
RunningStages == {s \in StageSet : stage[s] = "Running"}

\* C23: at most one stage subprocess is running at any time, whatever the
\* value of the reserved parallel flag: no two of Collect, Explain, Report
\* are Running together, and a running child process belongs to the one
\* Running stage.
C23_OneStageAtATime ==
    /\ Cardinality(RunningStages) <= 1
    /\ child.state = "running" => RunningStages = {Stages[cur]}
    /\ RunningStages # {} => child.state \in {"running", "exited"}

C23_Witness ==
    /\ cmd = "audit"
    /\ config.execution.parallel
    /\ stage = [Collect |-> "Succeeded", Explain |-> "Running", Report |-> "Pending"]
    /\ child.state = "running"

----------------------------------------------------------------------------
(* The config subcommand, from the start of the tool: main resolves the
   configuration, then config init or config validate runs
   (commands/config.rs) *)

\* ConfigCommands::Init { output, force } and ::Validate { file }
ConfigArgs ==
    [command : {"init"}, output : {"paddi.toml", ConfigFile},
     force : BOOLEAN, file : {None}]
    \cup
    [command : {"validate"}, output : {"paddi.toml"},
     force : {FALSE}, file : {None, Some(ConfigFile)}]

InitConfig ==
    /\ cmd = "config"
    /\ args \in ConfigArgs
    /\ cli \in {[config |-> None], [config |-> Some(ConfigFile)]}
    /\ cfs \in StartFiles
    /\ userDir \in BOOLEAN
    /\ reads = <<>>
    /\ loaded = NoRet
    /\ config = ConfigDefault
    /\ pc = "load_config"
    /\ cur = 1
    /\ CommandStart

\* init_config: bail if the file exists and --force is not given, else
\* Config::default().save(&output)?
init_config ==
    /\ pc = "init_config"
    /\ IF Exists(args.output, cfs) /\ ~args.force
       THEN /\ Return(Err("Configuration file already exists: {}",
                          args.output, "none"))
            /\ UNCHANGED cfs
       ELSE \E io \in {"ok", "mkdir_failed", "write_failed"} :
              CASE io = "ok" ->
                     /\ cfs' = [cfs EXCEPT ![args.output] =
                                   to_string_pretty(ConfigDefault)]
                     /\ Return(Ok)
                [] io = "mkdir_failed" ->
                     /\ Return(Err("Failed to create config directory: {}",
                                   "", "io"))
                     /\ UNCHANGED cfs
                [] io = "write_failed" ->
                     /\ Return(Err("Failed to write config file: {}",
                                   args.output, "io"))
                     /\ \E left \in {cfs[args.output], Malformed} :
                           cfs' = [cfs EXCEPT ![args.output] = left]
    /\ UNCHANGED <<cli, userDir, reads, loaded, dirs, probes, cmd, args, config,
                   cur, stage, launches, order, argv, child, elapsed, ret,
                   progress, errorLog>>

\* variant: a failed check is returned with ?
validate_config_checks_fatal ==
    /\ pc = "validate_config"
    /\ LET r == IF args.file.some THEN from_file(args.file.v, cfs)
                ELSE OkConfig(config)
       IN  IF r.kind = "Err"
           THEN /\ Return(r)
                /\ loaded' = r
                /\ reads' = Append(reads, args.file.v)
                /\ UNCHANGED <<config, launches, probes>>
           ELSE /\ config' = r.v
                /\ loaded' = r
                /\ reads' = IF args.file.some THEN Append(reads, args.file.v)
                            ELSE reads
                /\ launches' = [launches EXCEPT ![VersionProbe] = @ + 1]
                /\ \E outcome \in {"ok", "nonzero", "spawn_failed"},
                      present \in SUBSET {agents[i] : i \in 1..Len(agents)} :
                      /\ probes' = [probes EXCEPT !.python = Some(outcome),
                                                  !.agents = Some(present)]
                      /\ IF outcome # "ok"
                         THEN Return(Err("Python command is not available",
                                         <<>>, "none"))
                         ELSE IF FirstMissing(present) # 0
                         THEN Return(Err("Agent not found: {}",
                                         agents[FirstMissing(present)], "none"))
                         ELSE Return(Ok)
    /\ UNCHANGED <<cli, cfs, userDir, dirs, cmd, args, cur, stage, order, argv,
                   child, elapsed, ret, progress, errorLog>>

\* validate_config: Config::from_file(&file)? when --file is given, else
\* the configuration main loaded; the two checks are run and their results
\* printed; Ok(())
validate_config ==
    /\ pc = "validate_config"
    /\ LET r == IF args.file.some THEN from_file(args.file.v, cfs)
                ELSE OkConfig(config)
       IN  IF r.kind = "Err"
           THEN /\ Return(r)
                /\ loaded' = r
                /\ reads' = Append(reads, args.file.v)
                /\ UNCHANGED <<config, launches, probes>>
           ELSE /\ config' = r.v
                /\ loaded' = r
                /\ reads' = IF args.file.some THEN Append(reads, args.file.v)
                            ELSE reads
                /\ launches' = [launches EXCEPT ![VersionProbe] = @ + 1]
                /\ \E outcome \in {"ok", "nonzero", "spawn_failed"},
                      present \in SUBSET {agents[i] : i \in 1..Len(agents)} :
                      probes' = [probes EXCEPT !.python = Some(outcome),
                                               !.agents = Some(present)]
                /\ Return(Ok)
    /\ UNCHANGED <<cli, cfs, userDir, dirs, cmd, args, cur, stage, order, argv,
                   child, elapsed, ret, progress, errorLog>>

NextConfig ==
    \/ main
    \/ init_config
    \/ validate_config

SpecConfig == InitConfig /\ [][NextConfig]_vars

\* Config::save could not create the directory or write the file
SaveIoError(r) ==
    /\ r.kind = "Err"
    /\ r.text \in {"Failed to create config directory: {}",
                    "Failed to write config file: {}"}

\* the step in which `paddi config init` ends
ConfigInitEnds ==
    /\ cmd = "config"
    /\ args.command = "init"
    /\ pc # "done"
    /\ pc' = "done"

\* C24: config init, the file system permitting the write: when no file
\* exists at the output path it succeeds and the path then holds the
\* built-in default configuration; when a file exists there and --force is
\* not given it fails and the file is unchanged; with --force the file is
\* overwritten with the default configuration.
C24_ConfigInit ==
    [][(ConfigInitEnds /\ ~SaveIoError(result')) =>
          IF Exists(args.output, cfs) /\ ~args.force
          THEN /\ result'.kind = "Err"
               /\ cfs' = cfs
          ELSE /\ result' = Ok
               /\ from_file(args.output, cfs') = OkConfig(ConfigDefault)]_vars

\* `paddi config validate` has ended
ValidateEnded ==
    /\ cmd = "config"
    /\ args.command = "validate"
    /\ pc = "done"

\* the --file configuration cannot be read or parsed
FileFailure ==
    /\ args.file.some
    /\ cfs[args.file.v].kind \in {"absent", "unreadable", "malformed"}

----------------------------------------------------------------------------
(* The init command: sample data, then the three stages without a progress
   bar (commands/init.rs) *)

\* InitArgs { output, skip_run }, with the values init::run hands to the
\* stages: run_collector(Some(true), None), run_explainer(Some(true), None),
\* run_reporter(None, None, Some(formats))
InitArgs ==
    [output : {"output"}, skip_run : BOOLEAN,
     use_mock : {Some(TRUE)}, project_id : {None},
     input_dir : {None}, output_dir : {None},
     format : {Some(<<"markdown", "html", "honkit">>)},
     skip_validation : {TRUE}]

\* the context init::run puts on the Err of each stage
InitContext(s) ==
    CASE s = "Collect" -> "Failed to run collector"
      [] s = "Explain" -> "Failed to run explainer"
      [] s = "Report"  -> "Failed to run reporter"

InitInit ==
    /\ cmd = "init"
    /\ args \in InitArgs
    /\ config \in Configs
    /\ cli = [config |-> None]
    /\ cfs = NoFiles
    /\ userDir = TRUE
    /\ reads = <<>>
    /\ loaded = OkConfig(config)
    /\ pc = "init_setup"
    /\ cur = 1
    /\ CommandStart

\* create_directories(&args.output)?; setup_sample_data()?;
\* config.gcp.use_mock = true; then the pipeline unless --skip-run
init_setup ==
    /\ pc = "init_setup"
    /\ \E outcome \in {"ok", "mkdir_failed", "copy_failed"} :
         CASE outcome = "ok" ->
                /\ config' = [config EXCEPT !.gcp.use_mock = TRUE]
                /\ IF args.skip_run
                   THEN Return(Ok)
                   ELSE /\ pc' = "launch"
                        /\ UNCHANGED result
           [] outcome = "mkdir_failed" ->
                /\ Return(Err("Failed to create directory: {}", "data", "io"))
                /\ UNCHANGED config
           [] outcome = "copy_failed" ->
                /\ Return(Err("Failed to copy {} to {}", "data/collected.json", "io"))
                /\ UNCHANGED config
    /\ UNCHANGED <<cfgvars, dirs, probes, cmd, args, cur, stage, launches, order,
                   argv, child, elapsed, ret, progress, errorLog>>

\* init::run after a stage returned: ? on its Result with a context, the
\* AgentResult itself dropped; after the reporter the completion message
\* and Ok(())
init_run ==
    /\ pc = "returned"
    /\ cmd = "init"
    /\ IF ret.kind = "Err"
       THEN /\ Return(Err(InitContext(Stages[cur]), <<>>, ret.text))
            /\ UNCHANGED cur
       ELSE IF cur < Len(Stages)
       THEN /\ cur' = cur + 1
            /\ pc' = "launch"
            /\ UNCHANGED result
       ELSE /\ Return(Ok)
            /\ UNCHANGED cur
    /\ UNCHANGED <<cfgvars, dirs, probes, cmd, args, config, stage, launches,
                   order, argv, child, elapsed, ret, progress, errorLog>>

NextInit ==
    \/ init_setup
    \/ run_agent
    \/ child_exit
    \/ tick
    \/ run_python_agent
    \/ init_run

SpecInit == InitInit /\ [][NextInit]_vars

\* C25: the pipeline run of init halts at the first stage that does not
\* succeed: after a stage that failed (non-zero exit included) no later
\* stage is invoked, and init returns an error, not the completion message.
C25_InitHaltsOnFailure ==
    cmd = "init" =>
        \A i \in 1..Len(Stages) :
            stage[Stages[i]] = "Failed" =>
                /\ \A j \in (i + 1)..Len(Stages) : ~Launched(Stages[j])
                /\ pc = "done" => result.kind = "Err"

----------------------------------------------------------------------------
(* Properties of the race between the subprocess and the deadline *)

SpawnFailed(r) == r.kind = "Err" /\ r.text = "Failed to execute Python agent"

\* the number of the three outcomes that r is
OutcomeCount(r) ==
    Cardinality({k \in {"result", "timeout", "spawn"} :
                    \/ k = "result" /\ r.kind = "Ok"
                    \/ k = "timeout" /\ TimedOut(r)
                    \/ k = "spawn" /\ SpawnFailed(r)})

\* the step in which the invoker's race is decided
RaceDecided == pc = "await" /\ pc' = "returned"

\* C26: a stage invocation that has returned yielded exactly one of an
\* AgentResult, the Timeout error and the spawn error; a child that has
\* completed when the race is decided yields the AgentResult, never the
\* Timeout, whatever the deadline; the child is killed on the Timeout path
\* and on no other.
C26_OneOutcomePerInvocation ==
    /\ []((pc \in {"returned", "done"} /\ ret.kind # "none") =>
            /\ OutcomeCount(ret) = 1
            /\ ret.kind = "Ok" <=> child.state = "exited"
            /\ TimedOut(ret) <=> child.state = "killed"
            /\ SpawnFailed(ret) <=> child.state = "none")
    /\ [][(RaceDecided /\ child.state = "exited") =>
              /\ ret'.kind = "Ok"
              /\ child' = child]_vars
    /\ [][(child.state # "killed" /\ child'.state = "killed") =>
              /\ RaceDecided
              /\ child.state = "running"
              /\ TimedOut(ret')]_vars

\* C26 witness: the child completed, the deadline has elapsed as well, and
\* the invocation returned the AgentResult
C26_Witness ==
    /\ pc = "returned"
    /\ child.state = "exited"
    /\ DeadlineElapsed
    /\ config.execution.timeout_seconds > 0
    /\ ret.kind = "Ok"

----------------------------------------------------------------------------
(* Termination of the audit: the runtime keeps running the command and time
   keeps passing, but a subprocess need not ever exit *)

\* the audit command; the values handed to the scripts play no part in
\* whether the run ends, so the caller gives none and the configuration
\* holds the default ones
InitAudit ==
    /\ Init
    /\ cmd = "audit"
    /\ args.use_mock = None
    /\ args.project_id = None
    /\ config.gcp = GcpDefault

NextAudit ==
    \/ check_python_available
    \/ check_agents_exist
    \/ ensure_directories
    \/ run_agent
    \/ child_exit
    \/ tick
    \/ run_python_agent
    \/ run_full_audit

\* the steps of the tool itself and of the clock; child_exit is the
\* subprocess's own step and is not among them
ToolStep ==
    \/ check_python_available
    \/ check_agents_exist
    \/ ensure_directories
    \/ run_agent
    \/ tick
    \/ run_python_agent
    \/ run_full_audit

SpecAudit == InitAudit /\ [][NextAudit]_vars /\ WF_vars(ToolStep)

\* C27: every run of run_full_audit eventually ends in overall success or
\* failure, after at most three stage invocations; a stage whose
\* subprocess never exits does not stay Running forever, because the
\* deadline ends its invocation.
C27_AuditTerminates ==
    /\ (pc = "ensure_directories") ~> (pc = "done" /\ result.kind \in {"Ok", "Err"})
    /\ \A s \in StageSet : (stage[s] = "Running") ~> (stage[s] # "Running")
    /\ [](Len(order) <= Len(Stages))

\* C27 witness: a subprocess that never exited, ended by the deadline, and
\* the run ended
C27_Witness ==
    /\ pc = "done"
    /\ stage["Explain"] = "Failed"
    /\ child.state = "killed"
    /\ config.execution.timeout_seconds > 0
    /\ result.kind = "Err"

----------------------------------------------------------------------------
(* Properties of a configuration that fails to load *)

\* what is wrong with a file that cannot be loaded
Broken == {"unreadable", "malformed"}

\* C28: Config::load does not fall through on error: when the first
\* existing candidate cannot be read or parsed, the load fails with the
\* error of that file, no other file is read and the defaults are not
\* returned, even when a later candidate is valid; an explicit --config
\* path that is missing or malformed fails as well, with no fall-back to
\* the search order or the defaults.
C28_NoFallThrough ==
    pc # "load_config" =>
        /\ ~cli.config.some =>
              \A p \in Discovered :
                  cfs[p].kind \in Broken =>
                      /\ loaded.kind = "Err"
                      /\ loaded.detail = p
                      /\ reads = <<p>>
                      /\ result = loaded
        /\ (cli.config.some /\ cfs[cli.config.v].kind \in Broken \cup {"absent"}) =>
              /\ loaded.kind = "Err"
              /\ loaded.detail = cli.config.v
              /\ reads = <<cli.config.v>>
              /\ result = loaded

C28_Witness ==
    /\ ~cli.config.some
    /\ cfs["paddi.toml"].kind = "absent"
    /\ cfs[".paddi.toml"].kind = "unreadable"
    /\ userDir
    /\ cfs[UserConfigFile].kind = "toml"
    /\ loaded = Err("Failed to read config file: {}", ".paddi.toml", "io")
    /\ pc = "done"

====
